---- MODULE Spec2Model ----
(***************************************************************************)
(* The YouTube frame-extraction service.  Three programs ("variants") live *)
(* in the repository:                                                      *)
(*   server    src/server.js          POST /extract-frame (full download,  *)
(*                                    streamed reply), /extract-frames-    *)
(*                                    multiple                             *)
(*   part_000  src/unnamed/part_000   POST /extract-frames-both,           *)
(*                                    /save-selection                      *)
(*   part_001  src/unnamed/part_001   POST /extract-frame (piped download, *)
(*                                    streamed reply)                      *)
(* A behaviour runs one variant.  Every await of a handler is one step;    *)
(* the external tools (yt-dlp, ffmpeg, sharp, the file system, the media   *)
(* store, the spreadsheet) succeed or fail nondeterministically.           *)
(* Strings are sequences of one-character strings, so that the regular     *)
(* expressions, parseInt and the path templates are computed.              *)
(***************************************************************************)
EXTENDS Integers, Sequences, FiniteSets, TLC

VARIABLES variant, clients, urls, durations, flaky, dirExists, fs, cloud, sheet, req

vars == <<variant, clients, urls, durations, flaky, dirExists, fs, cloud, sheet, req>>

(***************************************************************************)
(* Characters and literals                                                 *)
(***************************************************************************)
Upper == {"A", "B", "C", "D", "E", "F", "G", "H", "I", "J", "K", "L", "M",
          "N", "O", "P", "Q", "R", "S", "T", "U", "V", "W", "X", "Y", "Z"}
Lower == {"a", "b", "c", "d", "e", "f", "g", "h", "i", "j", "k", "l", "m",
          "n", "o", "p", "q", "r", "s", "t", "u", "v", "w", "x", "y", "z"}
Digits == <<"0", "1", "2", "3", "4", "5", "6", "7", "8", "9">>
DigitSet == {Digits[i] : i \in 1..10}

\* [a-zA-Z0-9_-]
IdChars == Upper \cup Lower \cup DigitSet \cup {"_", "-"}

\* [^&\?\/]
LooseChars(c) == c \notin {"&", "?", "/"}

L_watch == <<"y", "o", "u", "t", "u", "b", "e", ".", "c", "o", "m", "/", "w", "a", "t", "c", "h", "?", "v", "=">>
L_short == <<"y", "o", "u", "t", "u", ".", "b", "e", "/">>
L_embed == <<"y", "o", "u", "t", "u", "b", "e", ".", "c", "o", "m", "/", "e", "m", "b", "e", "d", "/">>
L_jpg == <<".", "j", "p", "g">>
L_rawjpg == <<"_", "r", "a", "w", ".", "j", "p", "g">>
L_auto == <<"a", "u", "t", "o">>
L_null == <<"n", "u", "l", "l">>

\* JavaScript values that are not strings: an absent body field, and a JSON
\* number (truthy, but without a match method).
Undefined == <<"<undefined>">>
NonString == <<"<number>">>
IsString(v) == v # Undefined /\ v # NonString
\* !v
Falsy(v) == v = Undefined \/ v = <<>>

\* The result of a failed regular-expression search; extractVideoId's null.
Null == <<>>
\* Math.floor(NaN), parseInt("x"), Math.floor(undefined * k)
NaN == -1

(***************************************************************************)
(* String helpers                                                          *)
(***************************************************************************)
\* lit occurs in s at index i
MatchesAt(s, i, lit) ==
    /\ i + Len(lit) - 1 <= Len(s)
    /\ \A k \in 1..Len(lit) : s[i + k - 1] = lit[k]

StartsWith(s, lit) == MatchesAt(s, 1, lit)

\* String.prototype.replace(pattern, by) with a string pattern: the first
\* occurrence only.
ReplaceFirst(s, pat, by) ==
    LET hits == {i \in 1..Len(s) : MatchesAt(s, i, pat)}
    IN  IF hits = {} THEN s
        ELSE LET i == CHOOSE h \in hits : \A g \in hits : h <= g
             IN  SubSeq(s, 1, i - 1) \o by \o SubSeq(s, i + Len(pat), Len(s))

DigitVal(c) == (CHOOSE i \in 1..10 : Digits[i] = c) - 1

RECURSIVE DigitsValue(_, _)
DigitsValue(s, acc) ==
    IF s = <<>> THEN acc ELSE DigitsValue(Tail(s), acc * 10 + DigitVal(Head(s)))

\* parseInt(v): the longest prefix of decimal digits, NaN when there is none.
\* (The sampled inputs carry no sign, leading blank or 0x prefix.)
parseInt(v) ==
    IF ~IsString(v) THEN NaN
    ELSE LET stops == {i \in 1..Len(v) : v[i] \notin DigitSet}
             n == IF stops = {} THEN Len(v)
                  ELSE (CHOOSE i \in stops : \A j \in stops : i <= j) - 1
         IN  IF n = 0 THEN NaN ELSE DigitsValue(SubSeq(v, 1, n), 0)

RECURSIVE NumStr(_)
\* `${n}` for a non-negative integer
NumStr(n) == IF n < 10 THEN <<Digits[n + 1]>> ELSE NumStr(n \div 10) \o <<Digits[(n % 10) + 1]>>

\* `${videoId}` in a template literal
Tpl(id) == IF id = Null THEN L_null ELSE id

(***************************************************************************)
(* extractVideoId                                                          *)
(***************************************************************************)
UrlLiterals == <<L_watch, L_short, L_embed>>

\* (?:youtube\.com\/watch\?v=|youtu\.be\/|youtube\.com\/embed\/)([a-zA-Z0-9_-]{11})
\* tried at index i: the capture, or Null
StrictAt(s, i) ==
    LET alts == {a \in 1..3 :
                   /\ MatchesAt(s, i, UrlLiterals[a])
                   /\ i + Len(UrlLiterals[a]) + 10 <= Len(s)
                   /\ \A k \in 0..10 : s[i + Len(UrlLiterals[a]) + k] \in IdChars}
    IN  IF alts = {} THEN Null
        ELSE LET a == CHOOSE x \in alts : \A y \in alts : x <= y
                 j == i + Len(UrlLiterals[a])
             IN  SubSeq(s, j, j + 10)

\* (?:youtube\.com\/watch\?v=|youtu\.be\/|youtube\.com\/embed\/)([^&\?\/]+)
\* tried at index i: the greedy capture, or Null
LooseAt(s, i) ==
    LET alts == {a \in 1..3 :
                   /\ MatchesAt(s, i, UrlLiterals[a])
                   /\ i + Len(UrlLiterals[a]) <= Len(s)
                   /\ LooseChars(s[i + Len(UrlLiterals[a])])}
    IN  IF alts = {} THEN Null
        ELSE LET a == CHOOSE x \in alts : \A y \in alts : x <= y
                 j == i + Len(UrlLiterals[a])
                 ends == {e \in j..Len(s) : \A k \in j..e : LooseChars(s[k])}
                 e == CHOOSE x \in ends : \A y \in ends : y <= x
             IN  SubSeq(s, j, e)

\* /^([a-zA-Z0-9_-]{11})$/
BareMatch(s) ==
    IF Len(s) = 11 /\ \A k \in 1..11 : s[k] \in IdChars THEN s ELSE Null

\* url.match(pattern)[1] for the first pattern: the leftmost index that matches
FirstPattern(v, s) ==
    LET at(i) == IF v = "part_000" THEN LooseAt(s, i) ELSE StrictAt(s, i)
        hits == {i \in 1..Len(s) : at(i) # Null}
    IN  IF hits = {} THEN Null
        ELSE at(CHOOSE i \in hits : \A j \in hits : i <= j)

\* extractVideoId(url) of variant v, for a string url
extractVideoId(v, url) ==
    IF FirstPattern(v, url) # Null THEN FirstPattern(v, url) ELSE BareMatch(url)

\* url.match is not a function: extractVideoId throws a TypeError
ExtractThrows(url) == ~IsString(url)

(***************************************************************************)
(* Inputs: request bodies a client may send, and what yt-dlp may report    *)
(***************************************************************************)
U_short == <<"h", "t", "t", "p", "s", ":", "/", "/", "y", "o", "u", "t", "u", ".", "b", "e", "/", "d", "Q", "w", "4", "w", "9", "W", "g", "X", "c", "Q">>
U_watch == <<"y", "o", "u", "t", "u", "b", "e", ".", "c", "o", "m", "/", "w", "a", "t", "c", "h", "?", "v", "=", "d", "Q", "w", "4", "w", "9", "W", "g", "X", "c", "Q", "&", "t", "=", "5">>
U_embed == <<"y", "o", "u", "t", "u", "b", "e", ".", "c", "o", "m", "/", "e", "m", "b", "e", "d", "/", "a", "_", "b", "-", "c", "1", "D", "2", "E", "3", "f">>
U_other == <<"y", "o", "u", "t", "u", ".", "b", "e", "/", "a", "_", "b", "-", "c", "1", "D", "2", "E", "3", "f">>
U_bare == <<"d", "Q", "w", "4", "w", "9", "W", "g", "X", "c", "Q">>
U_text == <<"n", "o", "t", " ", "a", " ", "u", "r", "l">>
U_tooShort == <<"y", "o", "u", "t", "u", ".", "b", "e", "/", "a", "b", "c">>
U_frag == <<"y", "o", "u", "t", "u", ".", "b", "e", "/", "d", "Q", "w", "4", "w", "9", "W", "g", "X", "c", "Q", "#", ".", "j", "p", "g">>
U_bare10 == <<"d", "Q", "w", "4", "w", "9", "W", "g", "X", "c">>
U_bare12 == <<"d", "Q", "w", "4", "w", "9", "W", "g", "X", "c", "Q", "Q">>
U_z4 == <<"y", "o", "u", "t", "u", ".", "b", "e", "/", "Z", "-", "4">>
U_z == <<"y", "o", "u", "t", "u", ".", "b", "e", "/", "Z">>
U_query == <<"y", "o", "u", "t", "u", ".", "b", "e", "/", "?", "x">>

\* videoUrl values of a single client
AllUrls == {Undefined, <<>>, NonString, U_short, U_watch, U_embed, U_bare, U_text,
            U_tooShort, U_frag, U_bare10, U_bare12, U_query}

\* videoUrl values of two concurrent clients: client 1 sends one URL, client 2
\* a URL of the same video or of another one.
ConcUrls(v, c) ==
    IF v = "part_000"
    THEN (IF c = 1 THEN {U_z4} ELSE {U_z4, U_z})
    ELSE (IF c = 1 THEN {U_short} ELSE {U_bare, U_other})

\* timestamp values of POST /extract-frame
TimestampInputs == {Undefined, L_auto, <<"9", "0">>, <<"7">>, <<"1", "2", "x">>, <<"x">>}

\* `${frame.percent}` of a frame of POST /save-selection; Undefined: no frame
PercentInputs == {Undefined, <<"8">>, <<"4", "8">>, <<"4", "-", "8">>}

DurationStep == 37
MaxDurationSteps == 6
\* durations (whole seconds) yt-dlp reports
Durations == {0, 100, 200, 300} \cup {DurationStep * k : k \in 1..MaxDurationSteps}
ConcDurations == {100}

\* What `yt-dlp --dump-json` can end as: the process fails, its output is not
\* JSON, or it is JSON whose duration is d (NaN: no duration field).
MetaOutcomes ==
    (IF flaky THEN {[kind |-> "procfail", d |-> NaN], [kind |-> "parsefail", d |-> NaN]}
     ELSE {})
    \cup {[kind |-> "ok", d |-> d] : d \in durations \cup {NaN}}

\* How an awaited tool or file-system call can end by itself: TRUE, it
\* works (if the files it needs are there); FALSE, it fails.
Outcomes == IF flaky THEN BOOLEAN ELSE {TRUE}

(***************************************************************************)
(* Timestamp planning                                                      *)
(***************************************************************************)
\* Math.round in place of Math.floor
MathRoundPercent(duration, percent) ==
    IF duration = NaN THEN NaN ELSE (duration * percent + 50) \div 100

\* Math.floor(duration * 0.50 | 0.65 | 0.75) and Math.floor((percent / 100) *
\* duration): for whole-second durations the double product is the exact
\* product rounded to the nearest double, and its floor is the integer
\* quotient; NaN stays NaN.
MathFloorPercent(duration, percent) ==
    IF duration = NaN THEN NaN ELSE (duration * percent) \div 100

\* const timestamps = [...] of POST /extract-frames-multiple
timestamps(duration) ==
    << [percent |-> 50, time |-> MathFloorPercent(duration, 50), label |-> "middle"],
       [percent |-> 65, time |-> MathFloorPercent(duration, 65), label |-> "climax"],
       [percent |-> 75, time |-> MathFloorPercent(duration, 75), label |-> "late"] >>

\* the six-frame list the health check still announces
FRAME_PERCENTAGES_6 == << 15, 30, 45, 60, 75, 90 >>

FRAME_PERCENTAGES ==
    << 4, 8, 12, 16, 20, 24, 28, 32, 36, 40,
       44, 48, 52, 56, 60, 64, 68, 72, 76, 80,
       84, 88, 92, 96 >>

\* getVideoDuration without its defaults
getVideoDurationNoDefault(o) == o.d

\* getVideoDuration: videoInfo.duration || 300, and 300 on any failure
getVideoDuration(o) ==
    IF o.kind # "ok" THEN 300
    ELSE IF o.d = NaN \/ o.d = 0 THEN 300 ELSE o.d

\* const { videoUrl, timestamp = 'auto' } = req.body
timestampOrAuto(ts) == IF ts = Undefined THEN L_auto ELSE ts

\* let extractTime of POST /extract-frame
extractTime(ts, duration) ==
    IF timestampOrAuto(ts) = L_auto THEN MathFloorPercent(duration, 65)
    ELSE parseInt(timestampOrAuto(ts))

(***************************************************************************)
(* Temp paths                                                              *)
(***************************************************************************)
TEMP_DIR == <<"/", "t", "m", "p", "/", "f", "r", "a", "m", "e", "s", "/">>
L_video_mp4 == <<"_", "v", "i", "d", "e", "o", ".", "m", "p", "4">>
L_cropped_jpg == <<"_", "c", "r", "o", "p", "p", "e", "d", ".", "j", "p", "g">>
L_raw_ == <<"_", "r", "a", "w", "_">>
L_cropped_ == <<"_", "c", "r", "o", "p", "p", "e", "d", "_">>
L_mp4 == <<".", "m", "p", "4">>
L_portrait == <<"p", "o", "r", "t", "r", "a", "i", "t">>
L_landscape == <<"l", "a", "n", "d", "s", "c", "a", "p", "e">>
L_final == <<"-", "f", "i", "n", "a", "l">>
L_middle == <<"m", "i", "d", "d", "l", "e">>
L_climax == <<"c", "l", "i", "m", "a", "x">>
L_late == <<"l", "a", "t", "e">>

LabelChars(label) ==
    CASE label = "middle" -> L_middle
      [] label = "climax" -> L_climax
      [] label = "late" -> L_late
      [] label = "portrait" -> L_portrait
      [] label = "landscape" -> L_landscape

\* a download path scoped to the request
tempVideoPerRequest(q) == TEMP_DIR \o Tpl(q.videoId) \o <<"_">> \o NumStr(q.client) \o L_video_mp4

\* path.join(tempDir, `${videoId}_video.mp4`)
tempVideo(q) == TEMP_DIR \o Tpl(q.videoId) \o L_video_mp4
\* path.join(tempDir, `${videoId}_raw.jpg`)
rawFramePath(q) == TEMP_DIR \o Tpl(q.videoId) \o L_rawjpg
\* path.join(tempDir, `${videoId}_cropped.jpg`)
croppedFramePath(q) == TEMP_DIR \o Tpl(q.videoId) \o L_cropped_jpg
\* path.join(tempDir, `${videoId}_raw_${ts.label}.jpg`)
rawFramePathOf(q, label) == TEMP_DIR \o Tpl(q.videoId) \o L_raw_ \o LabelChars(label) \o L_jpg
\* path.join(tempDir, `${videoId}_cropped_${ts.label}.jpg`)
croppedFramePathOf(q, label) == TEMP_DIR \o Tpl(q.videoId) \o L_cropped_ \o LabelChars(label) \o L_jpg
\* path.join(TEMP_DIR, `${videoId}.mp4`)
tempVideoBoth(q) == TEMP_DIR \o Tpl(q.videoId) \o L_mp4
\* path.join(TEMP_DIR, `${videoId}-${percent}-portrait.jpg`), ...-landscape.jpg
framePath(q, percent, size) ==
    TEMP_DIR \o Tpl(q.videoId) \o <<"-">> \o NumStr(percent) \o <<"-">> \o LabelChars(size) \o L_jpg
\* outputPath.replace('.jpg', '_raw.jpg') of extractFrame
rawOf(outputPath) == ReplaceFirst(outputPath, L_jpg, L_rawjpg)
\* path.join(TEMP_DIR, `${videoId}-${frame.percent}-portrait-final.jpg`), ...
finalPath(q, percent, size) ==
    TEMP_DIR \o Tpl(q.videoId) \o <<"-">> \o percent \o <<"-">> \o LabelChars(size) \o L_final \o L_jpg
\* public_id: `${videoId}-${percent}-${size}`
publicId(q, percent, size) == Tpl(q.videoId) \o <<"-">> \o percent \o <<"-">> \o LabelChars(size)

(***************************************************************************)
(* Requests, the scratch directory, and bookkeeping                        *)
(***************************************************************************)
\* A client's request: the handler's locals, its position (pc), the response
\* (status, responses), and a record of the external steps it started
\* (started; rerun: one was started twice; late: one was started after a
\* failure; failedAt: the await that rejected).
Idle(c) ==
    [client |-> c, pc |-> "idle", endpoint |-> "", videoUrl |-> Undefined,
     timestamp |-> Undefined, pPercent |-> Undefined, lPercent |-> Undefined,
     videoId |-> Null, meta |-> "none", duration |-> NaN, extractTime |-> NaN,
     i |-> 0, size |-> "", frames |-> <<>>, landscape |-> <<>>, sent |-> NaN,
     status |-> 0, responses |-> 0, err |-> "", failedAt |-> "", sendErr |-> FALSE, cbErr |-> FALSE,
     headerErr |-> FALSE,
     started |-> {}, rerun |-> FALSE, late |-> FALSE,
     pUrl |-> <<>>, lUrl |-> <<>>]

\* q starts the external step op (of frame i, size)
Begin(q, op, i, size) ==
    [q EXCEPT !.started = @ \cup {<<op, i, size>>},
              !.rerun = @ \/ (<<op, i, size>> \in q.started),
              !.late = @ \/ (q.err # "")]

\* res.status(code).json(...), res.json(...)
Reply(q, code) == [q EXCEPT !.pc = "done", !.status = code, !.responses = @ + 1]

\* The try block is left for its catch block: the loop's locals go out of
\* scope, and the record of the steps started is closed.
Thrown(q, e) ==
    [q EXCEPT !.err = e, !.failedAt = q.pc, !.i = 0, !.size = "", !.frames = <<>>, !.landscape = <<>>,
              !.started = {}]

\* a catch block that logs the error and answers nothing: the handler stays
\* where it was
CatchAndGoOn(q, e) == [q EXCEPT !.err = e]

\* catch (error) { res.status(500).json(...) } of the handlers that clean
\* nothing up
Catch500(q, e) == Reply(Thrown(q, e), 500)

\* why an awaited step rejected: the tool failed, or it would have worked
\* but a file it needs is not there
Cause(ok) == IF ok THEN "ENOENT" ELSE "tool"

Exists(p) == \E f \in fs : f.path = p
FileAt(p) == CHOOSE f \in fs : f.path = p
\* the file system after request q (over)writes p: the file holds the video
\* named src (data 0), or its frame at offset data
Put(q, p, d) == {f \in fs : f.path # p} \cup {[path |-> p, src |-> q.videoId, data |-> d]}
\* the file system after fs.unlink(p)
Del(p) == {f \in fs : f.path # p}
\* validate without its second check, as POST /save-selection is written
validateNoIdCheck(v, url) ==
    IF Falsy(url) THEN "required"
    ELSE IF ExtractThrows(url) THEN "throw"
    ELSE "ok"

\* The checks at the head of the extraction handlers:
\*   if (!videoUrl) 400; videoId = extractVideoId(videoUrl); if (!videoId) 400
validate(v, url) ==
    IF Falsy(url) THEN "required"
    ELSE IF ExtractThrows(url) THEN "throw"
    ELSE IF extractVideoId(v, url) = Null THEN "invalid"
    ELSE "ok"

Set(c, q) == req' = [req EXCEPT ![c] = q]

(***************************************************************************)
(* POST /extract-frame (server.js; part_001 where it differs)              *)
(***************************************************************************)
\* The request arrives; the handler runs to its first await.
ReceiveExtractFrame(c) ==
    /\ variant \in {"server", "part_001"}
    /\ req[c].pc = "idle"
    /\ \E url \in urls[c], ts \in TimestampInputs :
         LET q == [req[c] EXCEPT !.endpoint = "extract-frame", !.videoUrl = url,
                                 !.timestamp = ts]
             v == validate(variant, url)
         IN  Set(c, CASE v = "required" -> Reply(q, 400)
                      [] v = "throw" -> Catch500(q, "TypeError")
                      [] v = "invalid" -> Reply(q, 400)
                      [] v = "ok" -> Begin([q EXCEPT !.pc = "meta",
                                                     !.videoId = extractVideoId(variant, url)],
                                           "yt-dlp-json", 0, ""))
    /\ UNCHANGED <<variant, clients, urls, durations, flaky, dirExists, fs, cloud, sheet>>

\* getVideoDuration resolves; extractTime is planned; fs.mkdir starts.
ExtractFrameMetaDone(c) ==
    LET q == req[c] IN
    /\ q.pc = "meta" /\ q.endpoint = "extract-frame"
    /\ \E o \in MetaOutcomes :
         Set(c, Begin([q EXCEPT !.pc = "mkdir", !.meta = o.kind,
                                !.duration = getVideoDuration(o),
                                !.extractTime = extractTime(q.timestamp, getVideoDuration(o))],
                      "mkdir", 0, ""))
    /\ UNCHANGED <<variant, clients, urls, durations, flaky, dirExists, fs, cloud, sheet>>

\* fs.mkdir resolves; the download (server.js) or the piped download and
\* extraction (part_001) starts.
ExtractFrameMkdirDone(c) ==
    LET q == req[c] IN
    /\ q.pc = "mkdir" /\ q.endpoint = "extract-frame"
    /\ \E ok \in Outcomes :
         IF ok
         THEN /\ dirExists' = TRUE
              /\ Set(c, IF variant = "server"
                        THEN Begin([q EXCEPT !.pc = "download"], "yt-dlp", 0, "")
                        ELSE Begin([q EXCEPT !.pc = "pipe"], "yt-dlp|ffmpeg", 0, ""))
         ELSE /\ dirExists' = dirExists
              /\ Set(c, Catch500(q, "tool"))
    /\ UNCHANGED <<variant, clients, urls, durations, flaky, fs, cloud, sheet>>

\* server.js: yt-dlp resolves; ffmpeg starts.
ExtractFrameDownloadDone(c) ==
    LET q == req[c] IN
    /\ q.pc = "download" /\ q.endpoint = "extract-frame"
    /\ \E ok \in Outcomes :
         IF ok /\ dirExists
         THEN /\ fs' = Put(q, tempVideo(q), 0)
              /\ Set(c, Begin([q EXCEPT !.pc = "ffmpeg"], "ffmpeg", 0, ""))
         ELSE /\ fs' = fs
              /\ Set(c, Catch500(q, Cause(ok)))
    /\ UNCHANGED <<variant, clients, urls, durations, flaky, dirExists, cloud, sheet>>

\* server.js: ffmpeg -ss extractTime resolves (it rejects a NaN offset and a
\* missing input); sharp starts.
ExtractFrameFfmpegDone(c) ==
    LET q == req[c] IN
    /\ q.pc = "ffmpeg" /\ q.endpoint = "extract-frame"
    /\ \E ok \in Outcomes :
         IF ok /\ Exists(tempVideo(q)) /\ q.extractTime # NaN
         THEN /\ fs' = Put(q, rawFramePath(q), q.extractTime)
              /\ Set(c, Begin([q EXCEPT !.pc = "sharp"],
                              "sharp", 0, ""))
         ELSE /\ fs' = fs
              /\ Set(c, Catch500(q, Cause(ok /\ q.extractTime # NaN)))
    /\ UNCHANGED <<variant, clients, urls, durations, flaky, dirExists, cloud, sheet>>

\* part_001: yt-dlp | ffmpeg resolves; sharp starts.
ExtractFramePipeDone(c) ==
    LET q == req[c] IN
    /\ q.pc = "pipe" /\ q.endpoint = "extract-frame"
    /\ \E ok \in Outcomes :
         IF ok /\ dirExists /\ q.extractTime # NaN
         THEN /\ fs' = Put(q, rawFramePath(q), q.extractTime)
              /\ Set(c, Begin([q EXCEPT !.pc = "sharp"], "sharp", 0, ""))
         ELSE /\ fs' = fs
              /\ Set(c, Catch500(q, Cause(ok /\ q.extractTime # NaN)))
    /\ UNCHANGED <<variant, clients, urls, durations, flaky, dirExists, cloud, sheet>>

\* sharp(rawFramePath)...toFile(croppedFramePath) resolves; res.sendFile starts.
ExtractFrameSharpDone(c) ==
    LET q == req[c] IN
    /\ q.pc = "sharp" /\ q.endpoint = "extract-frame"
    /\ \E ok \in Outcomes :
         IF ok /\ Exists(rawFramePath(q))
         THEN /\ fs' = Put(q, croppedFramePath(q), FileAt(rawFramePath(q)).data)
              /\ Set(c, Begin([q EXCEPT !.pc = "send"],
                              "sendFile", 0, ""))
         ELSE /\ fs' = fs
              /\ Set(c, Catch500(q, Cause(ok)))
    /\ UNCHANGED <<variant, clients, urls, durations, flaky, dirExists, cloud, sheet>>

\* the artifact whose fs.unlink the callback awaits at pc
Artifact(pc) ==
    CASE pc = "cbVideo" -> "video"
      [] pc = "cbRaw" -> "raw"
      [] pc = "cbCropped" -> "cropped"

\* the callback of res.sendFile goes on to its next await, fs.unlink of the
\* artifact of next, or returns
CallbackStep(q, next) ==
    IF next = "done" THEN [q EXCEPT !.pc = "done"]
    ELSE Begin([q EXCEPT !.pc = next], "unlink", 0, Artifact(next))

\* res.sendFile ends and calls back: sent (a 200 response) or failed (err is
\* ignored: nothing is answered).  The callback starts its first unlink.
ExtractFrameSendDone(c) ==
    LET q == req[c]
        next == IF variant = "server" THEN "cbVideo" ELSE "cbRaw"
    IN
    /\ q.pc = "send" /\ q.endpoint = "extract-frame"
    /\ \E ok \in Outcomes :
         IF ok /\ Exists(croppedFramePath(q))
         THEN Set(c, CallbackStep([q EXCEPT
                        !.status = 200, !.responses = @ + 1,
                        !.sent = FileAt(croppedFramePath(q)).data], next))
         ELSE Set(c, CallbackStep([q EXCEPT !.sendErr = TRUE], next))
    /\ UNCHANGED <<variant, clients, urls, durations, flaky, dirExists, fs, cloud, sheet>>

\* The callback's try block: one awaited fs.unlink; a rejection ends the
\* block (catch (e) logs).
CallbackUnlink(c, at, p, next) ==
    LET q == req[c] IN
    /\ q.pc = at /\ q.endpoint = "extract-frame"
    /\ \E ok \in Outcomes :
         IF ok /\ Exists(p)
         THEN /\ fs' = Del(p)
              /\ Set(c, CallbackStep(q, next))
         ELSE /\ fs' = fs
              /\ Set(c, [q EXCEPT !.pc = "done", !.cbErr = TRUE])
    /\ UNCHANGED <<variant, clients, urls, durations, flaky, dirExists, cloud, sheet>>

\* await fs.unlink(tempVideo)   (server.js only)
ExtractFrameUnlinkVideoDone(c) == CallbackUnlink(c, "cbVideo", tempVideo(req[c]), "cbRaw")
\* await fs.unlink(rawFramePath)
ExtractFrameUnlinkRawDone(c) == CallbackUnlink(c, "cbRaw", rawFramePath(req[c]), "cbCropped")
\* await fs.unlink(croppedFramePath)
ExtractFrameUnlinkCroppedDone(c) == CallbackUnlink(c, "cbCropped", croppedFramePath(req[c]), "done")

(***************************************************************************)
(* POST /extract-frames-multiple (server.js)                               *)
(***************************************************************************)
ReceiveExtractFramesMultiple(c) ==
    /\ variant = "server"
    /\ req[c].pc = "idle"
    /\ \E url \in urls[c] :
         LET q == [req[c] EXCEPT !.endpoint = "extract-frames-multiple", !.videoUrl = url]
             v == validate(variant, url)
         IN  Set(c, CASE v = "required" -> Reply(q, 400)
                      [] v = "throw" -> Catch500(q, "TypeError")
                      [] v = "invalid" -> Reply(q, 400)
                      [] v = "ok" -> Begin([q EXCEPT !.pc = "meta",
                                                     !.videoId = extractVideoId(variant, url)],
                                           "yt-dlp-json", 0, ""))
    /\ UNCHANGED <<variant, clients, urls, durations, flaky, dirExists, fs, cloud, sheet>>

\* the entry of const timestamps the loop is at
Ts(q) == timestamps(q.duration)[q.i]

\* getVideoDuration resolves; fs.mkdir starts.
MultipleMetaDone(c) ==
    LET q == req[c] IN
    /\ q.pc = "meta" /\ q.endpoint = "extract-frames-multiple"
    /\ \E o \in MetaOutcomes :
         Set(c, Begin([q EXCEPT !.pc = "mkdir", !.meta = o.kind,
                                !.duration = getVideoDuration(o)],
                      "mkdir", 0, ""))
    /\ UNCHANGED <<variant, clients, urls, durations, flaky, dirExists, fs, cloud, sheet>>

\* fs.mkdir resolves; the download starts.
MultipleMkdirDone(c) ==
    LET q == req[c] IN
    /\ q.pc = "mkdir" /\ q.endpoint = "extract-frames-multiple"
    /\ \E ok \in Outcomes :
         IF ok
         THEN /\ dirExists' = TRUE
              /\ Set(c, Begin([q EXCEPT !.pc = "download"], "yt-dlp", 0, ""))
         ELSE /\ dirExists' = dirExists
              /\ Set(c, Catch500(q, "tool"))
    /\ UNCHANGED <<variant, clients, urls, durations, flaky, fs, cloud, sheet>>

\* yt-dlp resolves; the loop starts: ffmpeg for the first timestamp.
MultipleDownloadDone(c) ==
    LET q == req[c] IN
    /\ q.pc = "download" /\ q.endpoint = "extract-frames-multiple"
    /\ \E ok \in Outcomes :
         IF ok /\ dirExists
         THEN /\ fs' = Put(q, tempVideo(q), 0)
              /\ Set(c, Begin([q EXCEPT !.pc = "ffmpeg", !.i = 1],
                              "ffmpeg", 1, ""))
         ELSE /\ fs' = fs
              /\ Set(c, Catch500(q, Cause(ok)))
    /\ UNCHANGED <<variant, clients, urls, durations, flaky, dirExists, cloud, sheet>>

\* ffmpeg -ss ts.time resolves; sharp starts.
MultipleFfmpegDone(c) ==
    LET q == req[c]
        raw == rawFramePathOf(q, Ts(q).label)
    IN
    /\ q.pc = "ffmpeg" /\ q.endpoint = "extract-frames-multiple"
    /\ \E ok \in Outcomes :
         IF ok /\ Exists(tempVideo(q))
         THEN /\ fs' = Put(q, raw, Ts(q).time)
              /\ Set(c, Begin([q EXCEPT !.pc = "sharp"],
                              "sharp", q.i, ""))
         ELSE /\ fs' = fs
              /\ Set(c, Catch500(q, Cause(ok)))
    /\ UNCHANGED <<variant, clients, urls, durations, flaky, dirExists, cloud, sheet>>

\* sharp resolves; fs.readFile starts.
MultipleSharpDone(c) ==
    LET q == req[c]
        raw == rawFramePathOf(q, Ts(q).label)
        cropped == croppedFramePathOf(q, Ts(q).label)
    IN
    /\ q.pc = "sharp" /\ q.endpoint = "extract-frames-multiple"
    /\ \E ok \in Outcomes :
         IF ok /\ Exists(raw)
         THEN /\ fs' = Put(q, cropped, FileAt(raw).data)
              /\ Set(c, Begin([q EXCEPT !.pc = "read"],
                              "readFile", q.i, ""))
         ELSE /\ fs' = fs
              /\ Set(c, Catch500(q, Cause(ok)))
    /\ UNCHANGED <<variant, clients, urls, durations, flaky, dirExists, cloud, sheet>>

\* fs.readFile resolves; results.push; the first fs.unlink starts.
MultipleReadDone(c) ==
    LET q == req[c]
        cropped == croppedFramePathOf(q, Ts(q).label)
    IN
    /\ q.pc = "read" /\ q.endpoint = "extract-frames-multiple"
    /\ \E ok \in Outcomes :
         IF ok /\ Exists(cropped)
         THEN Set(c, [q EXCEPT
                        !.pc = "unlinkRaw",
                        !.frames = Append(@, [label |-> Ts(q).label, percent |-> Ts(q).percent,
                                              timestamp |-> Ts(q).time,
                                              image |-> FileAt(cropped).data])])
         ELSE Set(c, Catch500(q, Cause(ok)))
    /\ UNCHANGED <<variant, clients, urls, durations, flaky, dirExists, fs, cloud, sheet>>

\* await fs.unlink(rawFramePath)
MultipleUnlinkRawDone(c) ==
    LET q == req[c]
        raw == rawFramePathOf(q, Ts(q).label)
    IN
    /\ q.pc = "unlinkRaw" /\ q.endpoint = "extract-frames-multiple"
    /\ \E ok \in Outcomes :
         IF ok /\ Exists(raw)
         THEN /\ fs' = Del(raw)
              /\ Set(c, [q EXCEPT !.pc = "unlinkCropped"])
         ELSE /\ fs' = fs
              /\ Set(c, Catch500(q, Cause(ok)))
    /\ UNCHANGED <<variant, clients, urls, durations, flaky, dirExists, cloud, sheet>>

\* await fs.unlink(croppedFramePath); the loop goes on to the next timestamp,
\* or ends and fs.unlink(tempVideo) starts.
MultipleUnlinkCroppedDone(c) ==
    LET q == req[c]
        cropped == croppedFramePathOf(q, Ts(q).label)
    IN
    /\ q.pc = "unlinkCropped" /\ q.endpoint = "extract-frames-multiple"
    /\ \E ok \in Outcomes :
         IF ok /\ Exists(cropped)
         THEN /\ fs' = Del(cropped)
              /\ Set(c, IF q.i < Len(timestamps(q.duration))
                        THEN Begin([q EXCEPT !.pc = "ffmpeg", !.i = q.i + 1],
                                   "ffmpeg", q.i + 1, "")
                        ELSE [q EXCEPT !.pc = "unlinkVideo"])
         ELSE /\ fs' = fs
              /\ Set(c, Catch500(q, Cause(ok)))
    /\ UNCHANGED <<variant, clients, urls, durations, flaky, dirExists, cloud, sheet>>

\* await fs.unlink(tempVideo); res.json({videoId, duration, frames})
MultipleUnlinkVideoDone(c) ==
    LET q == req[c] IN
    /\ q.pc = "unlinkVideo" /\ q.endpoint = "extract-frames-multiple"
    /\ \E ok \in Outcomes :
         IF ok /\ Exists(tempVideo(q))
         THEN /\ fs' = Del(tempVideo(q))
              /\ Set(c, Reply(q, 200))
         ELSE /\ fs' = fs
              /\ Set(c, Catch500(q, Cause(ok)))
    /\ UNCHANGED <<variant, clients, urls, durations, flaky, dirExists, cloud, sheet>>

(***************************************************************************)
(* POST /extract-frames-both (part_000)                                    *)
(***************************************************************************)
\* The request arrives.  extractVideoId is called outside the try block: if
\* it throws, the async handler's promise rejects and nothing is answered.
ReceiveExtractFramesBoth(c) ==
    /\ variant = "part_000"
    /\ req[c].pc = "idle"
    /\ \E url \in urls[c] :
         LET q == [req[c] EXCEPT !.endpoint = "extract-frames-both", !.videoUrl = url]
             v == validate(variant, url)
         IN  Set(c, CASE v = "required" -> Reply(q, 400)
                      [] v = "throw" -> [q EXCEPT !.pc = "hung", !.err = "TypeError"]
                      [] v = "invalid" -> Reply(q, 400)
                      [] v = "ok" -> Begin([q EXCEPT !.pc = "mkdir",
                                                     !.videoId = extractVideoId(variant, url)],
                                           "mkdir", 0, ""))
    /\ UNCHANGED <<variant, clients, urls, durations, flaky, dirExists, fs, cloud, sheet>>

\* getVideoInfo: returns {duration: info.duration, title}; any failure is
\* rethrown as 'Failed to get video information'.
getVideoInfo(o) == IF o.kind # "ok" THEN "throw" ELSE "ok"

\* catch (error) of POST /extract-frames-both: fs.unlink(tempVideo) starts
BothCatch(q, e) == [Thrown(q, e) EXCEPT !.pc = "catchUnlink"]

\* const timestamp = Math.floor((percent / 100) * duration)
BothTimestamp(q) == MathFloorPercent(q.duration, FRAME_PERCENTAGES[q.i])
\* portraitPath / landscapePath of the frame the loop is at
BothOutput(q) == framePath(q, FRAME_PERCENTAGES[q.i], q.size)

\* ensureTempDir resolves (a failed mkdir is only logged); getVideoInfo starts.
BothMkdirDone(c) ==
    LET q == req[c] IN
    /\ q.pc = "mkdir" /\ q.endpoint = "extract-frames-both"
    /\ \E ok \in Outcomes : dirExists' = (dirExists \/ ok)
    /\ Set(c, Begin([q EXCEPT !.pc = "meta"], "yt-dlp-json", 0, ""))
    /\ UNCHANGED <<variant, clients, urls, durations, flaky, fs, cloud, sheet>>

\* getVideoInfo resolves or throws; the download starts.
BothMetaDone(c) ==
    LET q == req[c] IN
    /\ q.pc = "meta" /\ q.endpoint = "extract-frames-both"
    /\ \E o \in MetaOutcomes :
         Set(c, IF getVideoInfo(o) = "throw"
                THEN BothCatch([q EXCEPT !.meta = o.kind], "meta")
                ELSE Begin([q EXCEPT !.pc = "download", !.meta = o.kind, !.duration = o.d],
                           "yt-dlp", 0, ""))
    /\ UNCHANGED <<variant, clients, urls, durations, flaky, dirExists, fs, cloud, sheet>>

\* yt-dlp resolves; the loop starts: extractFrame for the first portrait
\* frame, whose first await is ffmpeg.
BothDownloadDone(c) ==
    LET q == req[c] IN
    /\ q.pc = "download" /\ q.endpoint = "extract-frames-both"
    /\ \E ok \in Outcomes :
         IF ok /\ dirExists
         THEN /\ fs' = Put(q, tempVideoBoth(q), 0)
              /\ Set(c, Begin([q EXCEPT
                                 !.pc = "ffmpeg", !.i = 1, !.size = "portrait"],
                              "ffmpeg", 1, "portrait"))
         ELSE /\ fs' = fs
              /\ Set(c, BothCatch(q, Cause(ok)))
    /\ UNCHANGED <<variant, clients, urls, durations, flaky, dirExists, cloud, sheet>>

\* extractFrame: ffmpeg -ss timestamp resolves (it rejects a NaN offset and a
\* missing input); sharp starts.
BothFfmpegDone(c) ==
    LET q == req[c]
        raw == rawOf(BothOutput(q))
    IN
    /\ q.pc = "ffmpeg" /\ q.endpoint = "extract-frames-both"
    /\ \E ok \in Outcomes :
         IF ok /\ Exists(tempVideoBoth(q)) /\ BothTimestamp(q) # NaN
         THEN /\ fs' = Put(q, raw, BothTimestamp(q))
              /\ Set(c, Begin([q EXCEPT !.pc = "sharp"],
                              "sharp", q.i, q.size))
         ELSE /\ fs' = fs
              /\ Set(c, BothCatch(q, Cause(ok /\ BothTimestamp(q) # NaN)))
    /\ UNCHANGED <<variant, clients, urls, durations, flaky, dirExists, cloud, sheet>>

\* extractFrame: sharp(rawFramePath)...toFile(outputPath) resolves;
\* fs.unlink(rawFramePath) starts.
BothSharpDone(c) ==
    LET q == req[c]
        raw == rawOf(BothOutput(q))
    IN
    /\ q.pc = "sharp" /\ q.endpoint = "extract-frames-both"
    /\ \E ok \in Outcomes :
         IF ok /\ Exists(raw)
         THEN /\ fs' = Put(q, BothOutput(q), FileAt(raw).data)
              /\ Set(c, [q EXCEPT !.pc = "unlinkRaw"])
         ELSE /\ fs' = fs
              /\ Set(c, BothCatch(q, Cause(ok)))
    /\ UNCHANGED <<variant, clients, urls, durations, flaky, dirExists, cloud, sheet>>

\* extractFrame: fs.unlink(rawFramePath) resolves; extractFrame returns and
\* fs.readFile(outputPath) starts.
BothUnlinkRawDone(c) ==
    LET q == req[c]
        raw == rawOf(BothOutput(q))
    IN
    /\ q.pc = "unlinkRaw" /\ q.endpoint = "extract-frames-both"
    /\ \E ok \in Outcomes :
         IF ok /\ Exists(raw)
         THEN /\ fs' = Del(raw)
              /\ Set(c, Begin([q EXCEPT !.pc = "read"], "readFile", q.i, q.size))
         ELSE /\ fs' = fs
              /\ Set(c, BothCatch(q, Cause(ok)))
    /\ UNCHANGED <<variant, clients, urls, durations, flaky, dirExists, cloud, sheet>>

\* fs.readFile resolves; the frame is pushed; after the portrait frame the
\* landscape frame's extractFrame starts, after the landscape frame
\* fs.unlink(portraitPath) starts.
BothReadDone(c) ==
    LET q == req[c]
        entry == <<FRAME_PERCENTAGES[q.i], BothTimestamp(q), FileAt(BothOutput(q)).data>>
    IN
    /\ q.pc = "read" /\ q.endpoint = "extract-frames-both"
    /\ \E ok \in Outcomes :
         IF ok /\ Exists(BothOutput(q))
         THEN Set(c, IF q.size = "portrait"
                     THEN Begin([q EXCEPT
                                   !.pc = "ffmpeg", !.size = "landscape",
                                   !.frames = Append(@, entry)],
                                "ffmpeg", q.i, "landscape")
                     ELSE [q EXCEPT
                             !.pc = "unlinkPortrait", !.landscape = Append(@, entry)])
         ELSE Set(c, BothCatch(q, Cause(ok)))
    /\ UNCHANGED <<variant, clients, urls, durations, flaky, dirExists, fs, cloud, sheet>>

\* await fs.unlink(portraitPath)
BothUnlinkPortraitDone(c) ==
    LET q == req[c]
        p == framePath(q, FRAME_PERCENTAGES[q.i], "portrait")
    IN
    /\ q.pc = "unlinkPortrait" /\ q.endpoint = "extract-frames-both"
    /\ \E ok \in Outcomes :
         IF ok /\ Exists(p)
         THEN /\ fs' = Del(p)
              /\ Set(c, [q EXCEPT !.pc = "unlinkLandscape"])
         ELSE /\ fs' = fs
              /\ Set(c, BothCatch(q, Cause(ok)))
    /\ UNCHANGED <<variant, clients, urls, durations, flaky, dirExists, cloud, sheet>>

\* await fs.unlink(landscapePath); the loop goes on to the next percentage,
\* or ends and fs.unlink(tempVideo) starts.
BothUnlinkLandscapeDone(c) ==
    LET q == req[c]
        p == framePath(q, FRAME_PERCENTAGES[q.i], "landscape")
    IN
    /\ q.pc = "unlinkLandscape" /\ q.endpoint = "extract-frames-both"
    /\ \E ok \in Outcomes :
         IF ok /\ Exists(p)
         THEN /\ fs' = Del(p)
              /\ Set(c, IF q.i < Len(FRAME_PERCENTAGES)
                        THEN Begin([q EXCEPT
                                      !.pc = "ffmpeg", !.i = q.i + 1, !.size = "portrait"],
                                   "ffmpeg", q.i + 1, "portrait")
                        ELSE [q EXCEPT !.pc = "unlinkVideo"])
         ELSE /\ fs' = fs
              /\ Set(c, BothCatch(q, Cause(ok)))
    /\ UNCHANGED <<variant, clients, urls, durations, flaky, dirExists, cloud, sheet>>

\* await fs.unlink(tempVideo); res.json({videoId, videoTitle, duration,
\* portrait, landscape})
BothUnlinkVideoDone(c) ==
    LET q == req[c] IN
    /\ q.pc = "unlinkVideo" /\ q.endpoint = "extract-frames-both"
    /\ \E ok \in Outcomes :
         IF ok /\ Exists(tempVideoBoth(q))
         THEN /\ fs' = Del(tempVideoBoth(q))
              /\ Set(c, Reply(q, 200))
         ELSE /\ fs' = fs
              /\ Set(c, BothCatch(q, Cause(ok)))
    /\ UNCHANGED <<variant, clients, urls, durations, flaky, dirExists, cloud, sheet>>

\* the catch block: try { await fs.unlink(tempVideo) } catch (e) {} resolves
\* either way; res.status(500).json(...)
BothCatchUnlinkDone(c) ==
    LET q == req[c] IN
    /\ q.pc = "catchUnlink" /\ q.endpoint = "extract-frames-both"
    /\ \E ok \in Outcomes :
         IF ok /\ Exists(tempVideoBoth(q))
         THEN /\ fs' = Del(tempVideoBoth(q))
              /\ Set(c, Reply(q, 500))
         ELSE /\ fs' = fs
              /\ Set(c, Reply(q, 500))
    /\ UNCHANGED <<variant, clients, urls, durations, flaky, dirExists, cloud, sheet>>

(***************************************************************************)
(* POST /save-selection (part_000)                                         *)
(***************************************************************************)
\* The request arrives.  videoId is whatever extractVideoId returns (null
\* included); ensureTempDir starts.
ReceiveSaveSelection(c) ==
    /\ variant = "part_000"
    /\ req[c].pc = "idle"
    /\ \E url \in urls[c], pp \in PercentInputs, lp \in PercentInputs :
         LET q == [req[c] EXCEPT !.endpoint = "save-selection", !.videoUrl = url,
                                 !.pPercent = pp, !.lPercent = lp]
         IN  Set(c, IF Falsy(url) \/ pp = Undefined \/ lp = Undefined
                    THEN Reply(q, 400)
                    ELSE IF ExtractThrows(url)
                    THEN [q EXCEPT !.pc = "hung", !.err = "TypeError"]
                    ELSE Begin([q EXCEPT !.pc = "mkdir",
                                         !.videoId = extractVideoId(variant, url)],
                               "mkdir", 0, ""))
    /\ UNCHANGED <<variant, clients, urls, durations, flaky, dirExists, fs, cloud, sheet>>

portraitPath(q) == finalPath(q, q.pPercent, "portrait")
landscapePath(q) == finalPath(q, q.lPercent, "landscape")

\* ensureTempDir resolves; fs.writeFile(portraitPath) starts.
SaveMkdirDone(c) ==
    LET q == req[c] IN
    /\ q.pc = "mkdir" /\ q.endpoint = "save-selection"
    /\ \E ok \in Outcomes : dirExists' = (dirExists \/ ok)
    /\ Set(c, Begin([q EXCEPT !.pc = "writePortrait"], "writeFile", 0, "portrait"))
    /\ UNCHANGED <<variant, clients, urls, durations, flaky, fs, cloud, sheet>>

\* fs.writeFile(portraitPath) resolves; fs.writeFile(landscapePath) starts.
SaveWritePortraitDone(c) ==
    LET q == req[c] IN
    /\ q.pc = "writePortrait" /\ q.endpoint = "save-selection"
    /\ \E ok \in Outcomes :
         IF ok /\ dirExists
         THEN /\ fs' = Put(q, portraitPath(q), 0)
              /\ Set(c, Begin([q EXCEPT !.pc = "writeLandscape"],
                              "writeFile", 0, "landscape"))
         ELSE /\ fs' = fs
              /\ Set(c, Catch500(q, Cause(ok)))
    /\ UNCHANGED <<variant, clients, urls, durations, flaky, dirExists, cloud, sheet>>

\* fs.writeFile(landscapePath) resolves; the portrait upload starts.
SaveWriteLandscapeDone(c) ==
    LET q == req[c] IN
    /\ q.pc = "writeLandscape" /\ q.endpoint = "save-selection"
    /\ \E ok \in Outcomes :
         IF ok /\ dirExists
         THEN /\ fs' = Put(q, landscapePath(q), 0)
              /\ Set(c, Begin([q EXCEPT !.pc = "uploadPortrait"],
                              "upload", 0, "portrait"))
         ELSE /\ fs' = fs
              /\ Set(c, Catch500(q, Cause(ok)))
    /\ UNCHANGED <<variant, clients, urls, durations, flaky, dirExists, cloud, sheet>>

\* uploadToCloudinary(portraitPath, ...) resolves with the object's URL or
\* rethrows; the landscape upload starts.
SaveUploadPortraitDone(c) ==
    LET q == req[c]
        id == publicId(q, q.pPercent, "portrait")
    IN
    /\ q.pc = "uploadPortrait" /\ q.endpoint = "save-selection"
    /\ \E ok \in Outcomes :
         IF ok /\ Exists(portraitPath(q))
         THEN /\ cloud' = cloud \cup {id}
              /\ Set(c, Begin([q EXCEPT !.pc = "uploadLandscape", !.pUrl = id],
                              "upload", 0, "landscape"))
         ELSE /\ cloud' = cloud
              /\ Set(c, Catch500(q, Cause(ok)))
    /\ UNCHANGED <<variant, clients, urls, durations, flaky, dirExists, fs, sheet>>

\* uploadToCloudinary(landscapePath, ...) resolves; addToGoogleSheet starts:
\* its first await is the header update.
SaveUploadLandscapeDone(c) ==
    LET q == req[c]
        id == publicId(q, q.lPercent, "landscape")
    IN
    /\ q.pc = "uploadLandscape" /\ q.endpoint = "save-selection"
    /\ \E ok \in Outcomes :
         IF ok /\ Exists(landscapePath(q))
         THEN /\ cloud' = cloud \cup {id}
              /\ Set(c, Begin([q EXCEPT !.pc = "header", !.lUrl = id],
                              "sheet-update", 0, ""))
         ELSE /\ cloud' = cloud
              /\ Set(c, Catch500(q, Cause(ok)))
    /\ UNCHANGED <<variant, clients, urls, durations, flaky, dirExists, fs, sheet>>

\* addToGoogleSheet without the inner try around the header update: its
\* failure is rethrown to the handler
SaveHeaderDoneRethrow(c) ==
    LET q == req[c] IN
    /\ q.pc = "header" /\ q.endpoint = "save-selection"
    /\ \E ok \in Outcomes :
         Set(c, IF ok THEN Begin([q EXCEPT !.pc = "append"], "sheet-append", 0, "")
                ELSE Catch500([q EXCEPT !.headerErr = TRUE], "tool"))
    /\ UNCHANGED <<variant, clients, urls, durations, flaky, dirExists, fs, cloud, sheet>>

\* addToGoogleSheet: the header update resolves or fails (caught and
\* logged: headerErr); the row append starts.
SaveHeaderDone(c) ==
    LET q == req[c] IN
    /\ q.pc = "header" /\ q.endpoint = "save-selection"
    /\ \E ok \in Outcomes :
         Set(c, Begin([q EXCEPT !.pc = "append", !.headerErr = ~ok], "sheet-append", 0, ""))
    /\ UNCHANGED <<variant, clients, urls, durations, flaky, dirExists, fs, cloud, sheet>>

\* addToGoogleSheet: the append resolves (the row is in the sheet) or
\* rethrows; fs.unlink(portraitPath) starts.
SaveAppendDone(c) ==
    LET q == req[c] IN
    /\ q.pc = "append" /\ q.endpoint = "save-selection"
    /\ \E ok \in Outcomes :
         IF ok
         THEN /\ sheet' = Append(sheet, [by |-> c, portraitUrl |-> q.pUrl, landscapeUrl |-> q.lUrl])
              /\ Set(c, [q EXCEPT !.pc = "unlinkPortrait"])
         ELSE /\ sheet' = sheet
              /\ Set(c, Catch500(q, "tool"))
    /\ UNCHANGED <<variant, clients, urls, durations, flaky, dirExists, fs, cloud>>

\* await fs.unlink(portraitPath)
SaveUnlinkPortraitDone(c) ==
    LET q == req[c] IN
    /\ q.pc = "unlinkPortrait" /\ q.endpoint = "save-selection"
    /\ \E ok \in Outcomes :
         IF ok /\ Exists(portraitPath(q))
         THEN /\ fs' = Del(portraitPath(q))
              /\ Set(c, [q EXCEPT !.pc = "unlinkLandscape"])
         ELSE /\ fs' = fs
              /\ Set(c, Catch500(q, Cause(ok)))
    /\ UNCHANGED <<variant, clients, urls, durations, flaky, dirExists, cloud, sheet>>

\* await fs.unlink(landscapePath); res.json({success: true, ...})
SaveUnlinkLandscapeDone(c) ==
    LET q == req[c] IN
    /\ q.pc = "unlinkLandscape" /\ q.endpoint = "save-selection"
    /\ \E ok \in Outcomes :
         IF ok /\ Exists(landscapePath(q))
         THEN /\ fs' = Del(landscapePath(q))
              /\ Set(c, Reply(q, 200))
         ELSE /\ fs' = fs
              /\ Set(c, Catch500(q, Cause(ok)))
    /\ UNCHANGED <<variant, clients, urls, durations, flaky, dirExists, cloud, sheet>>

(***************************************************************************)
(* Specifications                                                          *)
(***************************************************************************)
Variants == {"server", "part_000", "part_001"}

\* A freshly started server.  part_000 calls ensureTempDir when it starts to
\* listen, so its scratch directory exists before the first request unless
\* that mkdir failed.
InitWith(cs, fl) ==
    /\ variant \in Variants
    /\ clients = cs
    /\ flaky = fl
    /\ dirExists \in (IF variant # "part_000" THEN {FALSE} ELSE IF fl THEN BOOLEAN ELSE {TRUE})
    /\ fs = {}
    /\ cloud = {}
    /\ sheet = <<>>
    /\ req = [c \in cs |-> Idle(c)]

\* one client, any of the sampled request bodies and durations
Init ==
    /\ InitWith({1}, TRUE)
    /\ urls = [c \in {1} |-> AllUrls]
    /\ durations = Durations

\* two concurrent clients, asking for the same video or for two videos; the
\* tools work, so that whatever fails, fails because of the other request
InitConc ==
    /\ InitWith({1, 2}, FALSE)
    /\ urls = [c \in {1, 2} |-> ConcUrls(variant, c)]
    /\ durations = ConcDurations

Next ==
    \/ \E c \in clients : ReceiveExtractFrame(c)
    \/ \E c \in clients : ExtractFrameMetaDone(c)
    \/ \E c \in clients : ExtractFrameMkdirDone(c)
    \/ \E c \in clients : ExtractFrameDownloadDone(c)
    \/ \E c \in clients : ExtractFrameFfmpegDone(c)
    \/ \E c \in clients : ExtractFramePipeDone(c)
    \/ \E c \in clients : ExtractFrameSharpDone(c)
    \/ \E c \in clients : ExtractFrameSendDone(c)
    \/ \E c \in clients : ExtractFrameUnlinkVideoDone(c)
    \/ \E c \in clients : ExtractFrameUnlinkRawDone(c)
    \/ \E c \in clients : ExtractFrameUnlinkCroppedDone(c)
    \/ \E c \in clients : ReceiveExtractFramesMultiple(c)
    \/ \E c \in clients : MultipleMetaDone(c)
    \/ \E c \in clients : MultipleMkdirDone(c)
    \/ \E c \in clients : MultipleDownloadDone(c)
    \/ \E c \in clients : MultipleFfmpegDone(c)
    \/ \E c \in clients : MultipleSharpDone(c)
    \/ \E c \in clients : MultipleReadDone(c)
    \/ \E c \in clients : MultipleUnlinkRawDone(c)
    \/ \E c \in clients : MultipleUnlinkCroppedDone(c)
    \/ \E c \in clients : MultipleUnlinkVideoDone(c)
    \/ \E c \in clients : ReceiveExtractFramesBoth(c)
    \/ \E c \in clients : BothMkdirDone(c)
    \/ \E c \in clients : BothMetaDone(c)
    \/ \E c \in clients : BothDownloadDone(c)
    \/ \E c \in clients : BothFfmpegDone(c)
    \/ \E c \in clients : BothSharpDone(c)
    \/ \E c \in clients : BothUnlinkRawDone(c)
    \/ \E c \in clients : BothReadDone(c)
    \/ \E c \in clients : BothUnlinkPortraitDone(c)
    \/ \E c \in clients : BothUnlinkLandscapeDone(c)
    \/ \E c \in clients : BothUnlinkVideoDone(c)
    \/ \E c \in clients : BothCatchUnlinkDone(c)
    \/ \E c \in clients : ReceiveSaveSelection(c)
    \/ \E c \in clients : SaveMkdirDone(c)
    \/ \E c \in clients : SaveWritePortraitDone(c)
    \/ \E c \in clients : SaveWriteLandscapeDone(c)
    \/ \E c \in clients : SaveUploadPortraitDone(c)
    \/ \E c \in clients : SaveUploadLandscapeDone(c)
    \/ \E c \in clients : SaveHeaderDone(c)
    \/ \E c \in clients : SaveAppendDone(c)
    \/ \E c \in clients : SaveUnlinkPortraitDone(c)
    \/ \E c \in clients : SaveUnlinkLandscapeDone(c)

Spec == Init /\ [][Next]_vars
SpecConc == InitConc /\ [][Next]_vars

(***************************************************************************)
(* Properties                                                              *)
(***************************************************************************)
EF == "extract-frame"
EFM == "extract-frames-multiple"
EFB == "extract-frames-both"
SS == "save-selection"

Extraction(q) == q.endpoint \in {EF, EFM, EFB}
Running(q) == q.pc \notin {"idle", "done", "hung"}

\* the file name of path p (what follows TEMP_DIR) starts with id
NamedWith(p, id) == MatchesAt(p, Len(TEMP_DIR) + 1, id)

\* videoUrl is missing, or a string from which extractVideoId returns null
Unparseable(url) == Falsy(url) \/ (IsString(url) /\ extractVideoId(variant, url) = Null)

\* the whole number of seconds a string of decimal digits denotes, as the
\* number whose decimal rendering it is; NaN for any other string
Seconds(v) ==
    IF \E n \in 0..999 : NumStr(n) = v THEN CHOOSE n \in 0..999 : NumStr(n) = v ELSE NaN

\* C1: once an extraction request has finished (its cleanup included), no
\* temp file whose name starts with the request's video identifier remains.
C1_NoArtifactRemains ==
    \A c \in clients :
        (Extraction(req[c]) /\ req[c].pc = "done" /\ req[c].videoId # Null)
            => \A f \in fs : ~NamedWith(f.path, req[c].videoId)

\* C2: an extraction request whose videoUrl is missing or unparseable is
\* answered with HTTP 400, and has started no external step (mkdir, metadata
\* lookup, download, ffmpeg, ...) and created no temp directory or file.
C2_InvalidUrlRejected ==
    \A c \in clients :
        (Extraction(req[c]) /\ Unparseable(req[c].videoUrl))
            => /\ req[c].pc = "done"
               /\ req[c].status = 400
               /\ req[c].responses = 1
               /\ req[c].started = {}
               /\ fs = {}
               /\ (variant # "part_000" => ~dirExists)

C2_Witness ==
    \E c \in clients :
        /\ Extraction(req[c]) /\ req[c].videoUrl = U_text
        /\ req[c].status = 400 /\ req[c].started = {}

\* the metadata step of request q failed
MetaFailed(q) == q.meta \in {"procfail", "parsefail"}

PlannedFrames(D) ==
    << [label |-> "middle", percent |-> 50, timestamp |-> (D * 50) \div 100, image |-> (D * 50) \div 100],
       [label |-> "climax", percent |-> 65, timestamp |-> (D * 65) \div 100, image |-> (D * 65) \div 100],
       [label |-> "late", percent |-> 75, timestamp |-> (D * 75) \div 100, image |-> (D * 75) \div 100] >>

\* C4: the offset handed to ffmpeg is floor(D * p / 100): POST /extract-frame
\* uses p = 65 when timestamp is omitted or "auto" (300 gives 195, 100 gives
\* 65) and the literal whole seconds otherwise; POST /extract-frames-multiple
\* extracts and returns (50, middle), (65, climax), (75, late) in that order
\* (200 gives 100, 130, 150).
C4_TimestampPlan ==
    \A c \in clients :
        LET q == req[c]
            D == q.duration
        IN
        /\ (q.endpoint = EF /\ q.meta # "none") =>
              /\ q.timestamp \in {Undefined, L_auto} =>
                    /\ q.extractTime = (D * 65) \div 100
                    /\ D = 300 => q.extractTime = 195
                    /\ D = 100 => q.extractTime = 65
              /\ (q.timestamp \notin {Undefined, L_auto} /\ Seconds(q.timestamp) # NaN) =>
                    q.extractTime = Seconds(q.timestamp)
              /\ q.pc = "sharp" => FileAt(rawFramePath(q)).data = q.extractTime
              /\ q.status = 200 => q.sent = q.extractTime
        /\ (q.endpoint = EFM /\ q.err = "") =>
              /\ q.frames = SubSeq(PlannedFrames(D), 1, Len(q.frames))
              /\ q.status = 200 => q.frames = PlannedFrames(D)
              /\ (q.status = 200 /\ D = 200) =>
                    <<q.frames[1].timestamp, q.frames[2].timestamp, q.frames[3].timestamp>>
                        = <<100, 130, 150>>

C4_Witness ==
    \E c \in clients :
        /\ req[c].endpoint = EFM /\ req[c].status = 200
        /\ req[c].duration = 200 /\ Len(req[c].frames) = 3

C6_ElevenCharacterId ==
    \A c \in clients :
        LET q == req[c] IN
        (q.pc # "idle" /\ IsString(q.videoUrl)) =>
            /\ q.videoId # Null =>
                  /\ Len(q.videoId) = 11
                  /\ \A k \in 1..Len(q.videoId) : q.videoId[k] \in IdChars
            /\ q.videoUrl \in {U_short, U_watch, U_bare, U_frag} => q.videoId = U_bare
            /\ q.videoUrl \in {U_embed, U_other} => q.videoId = SubSeq(U_embed, 19, 29)
            /\ q.videoUrl \in {U_text, U_tooShort, U_bare10, U_bare12, U_query, <<>>} =>
                  q.videoId = Null

\* C7: when a step of an extraction request fails, the request is answered
\* with HTTP 500, no pipeline step is started after the failure, and no
\* external step is started twice for the same request and frame.
C7_FailureAborts ==
    \A c \in clients :
        LET q == req[c] IN
        Extraction(q) =>
            /\ ~q.rerun
            /\ ~q.late
            /\ q.err \in {"tool", "ENOENT"} =>
                  /\ q.pc \in {"catchUnlink", "done"}
                  /\ q.pc = "done" => (q.status = 500 /\ q.responses = 1)

C7_Witness ==
    \E c \in clients :
        /\ Extraction(req[c]) /\ req[c].pc = "done" /\ req[c].status = 500
        /\ req[c].failedAt \in {"download", "ffmpeg", "pipe"}

\* C10: POST /save-selection answers HTTP 400 to a request whose videoUrl is
\* missing or unparseable, before any temp file is written, any object is
\* uploaded and any row is appended.
C10_SaveRejectsInvalidUrl ==
    \A c \in clients :
        (req[c].endpoint = SS /\ Unparseable(req[c].videoUrl))
            => /\ req[c].pc = "done"
               /\ req[c].status = 400
               /\ req[c].started = {}
               /\ fs = {} /\ cloud = {} /\ sheet = <<>>

\* every temp path the handler of request q names, from its endpoint, its
\* video identifier and its frame labels or percents
TempPaths(q) ==
    CASE q.endpoint = EF ->
            (IF variant = "server" THEN {tempVideo(q)} ELSE {})
                \cup {rawFramePath(q), croppedFramePath(q)}
      [] q.endpoint = EFM ->
            {tempVideo(q)}
                \cup {rawFramePathOf(q, l) : l \in {"middle", "climax", "late"}}
                \cup {croppedFramePathOf(q, l) : l \in {"middle", "climax", "late"}}
      [] q.endpoint = EFB ->
            {tempVideoBoth(q)}
                \cup {framePath(q, FRAME_PERCENTAGES[k], sz) :
                        k \in 1..Len(FRAME_PERCENTAGES), sz \in {"portrait", "landscape"}}
                \cup {rawOf(framePath(q, FRAME_PERCENTAGES[k], sz)) :
                        k \in 1..Len(FRAME_PERCENTAGES), sz \in {"portrait", "landscape"}}
      [] q.endpoint = SS -> {portraitPath(q), landscapePath(q)}
      [] OTHER -> {}

\* the temp paths the handler of request q names where it is: the download
\* and the files of the frame its loop is at
StepPaths(q) ==
    CASE q.endpoint = EF -> TempPaths(q)
      [] q.endpoint = EFM ->
            {tempVideo(q)}
                \cup (IF q.i \in 1..3
                      THEN {rawFramePathOf(q, Ts(q).label), croppedFramePathOf(q, Ts(q).label)}
                      ELSE {})
      [] q.endpoint = EFB ->
            {tempVideoBoth(q)}
                \cup (IF q.i \in 1..Len(FRAME_PERCENTAGES)
                      THEN {framePath(q, FRAME_PERCENTAGES[q.i], sz) :
                                sz \in {"portrait", "landscape"}}
                           \cup {rawOf(framePath(q, FRAME_PERCENTAGES[q.i], sz)) :
                                    sz \in {"portrait", "landscape"}}
                      ELSE {})
      [] OTHER -> TempPaths(q)

\* request q has got past validation: its handler names temp paths
Admitted(q) == q.pc # "idle" /\ q.status # 400 /\ q.pc # "hung"

\* C8: two concurrently running extraction requests of one endpoint for the
\* same video identifier, at the same frame of their plans, name identical
\* temp paths, the files found there are files written for that identifier,
\* and (no tool failing by itself) an extraction request finds a file
\* missing only when the other request was admitted for the same identifier.
C8_SameIdSharesPaths ==
    \A c \in clients : \A d \in clients \ {c} :
        /\ (/\ Extraction(req[c]) /\ Running(req[c]) /\ Running(req[d])
            /\ req[c].endpoint = req[d].endpoint
            /\ req[c].videoId = req[d].videoId
            /\ req[c].i = req[d].i)
              => /\ StepPaths(req[c]) # {}
                 /\ StepPaths(req[c]) = StepPaths(req[d])
                 /\ \A f \in fs : f.path \in StepPaths(req[c]) => f.src = req[d].videoId
        /\ (Extraction(req[c]) /\ req[c].err = "ENOENT")
              => (Admitted(req[d]) /\ req[d].videoId = req[c].videoId)

\* the race: a request failed on a file that the other request, running for
\* the same identifier on the same endpoint, had removed
C8_Witness ==
    \E c \in clients : \E d \in clients \ {c} :
        /\ Extraction(req[c]) /\ req[c].endpoint = req[d].endpoint
        /\ req[c].videoId = req[d].videoId
        /\ req[c].err = "ENOENT" /\ req[c].status = 500
        /\ req[d].status = 200

\* C9: requests whose parsed video identifiers differ never touch the same
\* temp path: a file found at a path that an admitted request names was
\* written for that request's identifier.
C9_DifferentIdsDisjoint ==
    \A c \in clients :
        (Admitted(req[c]) /\ req[c].videoId # Null)
            => \A f \in fs : f.path \in TempPaths(req[c]) => f.src = req[c].videoId

\* the completion callback of res.sendFile of request q has run to its end
CallbackRan(q) == q.endpoint = EF /\ q.pc = "done" /\ (q.status = 200 \/ q.sendErr)

\* the temp artifacts of a POST /extract-frame request of the running variant
Artifacts == (IF variant = "server" THEN {"video"} ELSE {}) \cup {"raw", "cropped"}

\* C11: in POST /extract-frame, once the completion callback of the file send
\* has run, the deletion of every temp artifact of the request (the video
\* where there is one, the raw frame, the cropped frame) has been attempted,
\* whether the send succeeded or failed and whether or not an earlier
\* deletion in the callback failed.
C11_CallbackDeletesAll ==
    \A c \in clients :
        CallbackRan(req[c])
            => \A a \in Artifacts : <<"unlink", 0, a>> \in req[c].started

\* the rows of the sheet that request c appended
RowsOf(c) == {k \in 1..Len(sheet) : sheet[k].by = c}

\* both uploads of request q have succeeded: it holds the two URLs they
\* returned, and the objects are in the media store
Uploaded(q) ==
    /\ q.pUrl = publicId(q, q.pPercent, "portrait") /\ q.pUrl \in cloud
    /\ q.lUrl = publicId(q, q.lPercent, "landscape") /\ q.lUrl \in cloud

\* C12: in POST /save-selection a row is in the sheet only once both uploads
\* have succeeded, and it carries the two URLs they returned; a request whose
\* upload failed has no row; a success response is sent only with the row
\* appended, and a successful request has exactly one row; a failed header
\* write alone does not prevent the append.
C12_RowAfterBothUploads ==
    \A c \in clients :
        LET q == req[c] IN
        q.endpoint = SS =>
            /\ Cardinality(RowsOf(c)) <= 1
            /\ \A k \in RowsOf(c) :
                  /\ Uploaded(q)
                  /\ sheet[k].portraitUrl = q.pUrl
                  /\ sheet[k].landscapeUrl = q.lUrl
            /\ q.pc \in {"mkdir", "writePortrait", "writeLandscape", "uploadPortrait",
                         "uploadLandscape", "header", "append"} => RowsOf(c) = {}
            /\ q.failedAt \in {"writePortrait", "writeLandscape", "uploadPortrait",
                               "uploadLandscape", "append"} => RowsOf(c) = {}
            /\ q.status = 200 => Cardinality(RowsOf(c)) = 1
            /\ (q.headerErr /\ q.pc # "append" /\ q.failedAt # "append")
                  => Cardinality(RowsOf(c)) = 1

\* a request answered with success although its header write had failed
C12_Witness ==
    \E c \in clients :
        /\ req[c].endpoint = SS /\ req[c].status = 200 /\ req[c].headerErr
        /\ Cardinality(RowsOf(c)) = 1 /\ Uploaded(req[c])

\* the handler of request q, and the callback it left behind, have ended:
\* nothing of the request is left to run
Ended(q) == q.pc \in {"done", "hung"}

\* C13: every request to a POST endpoint receives exactly one HTTP response:
\* never a second one, and, once its handler (and the send callback) has
\* ended, not zero.
C13_ExactlyOneResponse ==
    \A c \in clients :
        /\ req[c].responses <= 1
        /\ Ended(req[c]) => req[c].responses = 1

====
